---- MODULE Spec2Model ----
(***************************************************************************)
(* State-machine model of the TokenBDB fungible-token contract             *)
(* (contracts/hello-world/src/lib.rs, storage.rs, errors.rs).              *)
(*                                                                         *)
(* The contract keeps its state in two key-value stores: instance storage  *)
(* (Admin, TokenName, TokenSymbol, Decimals, TotalSupply, Initialized) and *)
(* persistent storage (Balance(a), Allowance(o, s)).  Every entry point is *)
(* modelled as an operator that runs the handler's statements in source    *)
(* order on the two stores and yields the stores it leaves behind, the     *)
(* value it returns, the events it published and the keys whose retention  *)
(* window it extended.  A handler's `?` or `return Err` ends it at that    *)
(* statement: the writes made before it stay in the stores it leaves.      *)
(*                                                                         *)
(* The host runs invocations one at a time: an invocation is submitted     *)
(* (its entry point, its arguments and the addresses that authorized it),  *)
(* then its handler runs to completion as one step.                        *)
(*                                                                         *)
(* exhausted is a history variable: the (owner, spender) pairs whose       *)
(* allowance a transfer_from has used up and no approve has set since.     *)
(* minted is a history variable too: while a successful mint(to, X) is the *)
(* latest completed call, or is followed immediately by a burn(to, X), it  *)
(* holds what balance(to), total_supply() and the presence of to's balance *)
(* record were before that mint.                                           *)
(* revoked is the third history variable: while a successful               *)
(* approve(owner, spender, 0) is the latest completed call, or is followed *)
(* immediately by another approve(owner, spender, 0), it holds the pair    *)
(* and whether that approve was itself such a repetition.                  *)
(* unspent is the last history variable: for each pair (owner, spender) it *)
(* holds the amount A of the latest successful approve(owner, spender, A), *)
(* 0 when there was none, minus the total of the amounts of the successful *)
(* transfer_from(spender, owner, _, _) calls made since.  It is computed   *)
(* from the calls and their results alone, never from the stores; a pair   *)
(* it does not list stands at 0.                                           *)
(*                                                                         *)
(* i128 is modelled as the integer range IntMin..IntMax.                   *)
(***************************************************************************)
EXTENDS Integers, Sequences, FiniteSets, TLC

VARIABLES instance, persistent, invocation, events, extended, lastOp, lastResult,
          exhausted, minted, revoked, unspent

vars == <<instance, persistent, invocation, events, extended, lastOp, lastResult,
          exhausted, minted, revoked, unspent>>

---------------------------------------------------------------------------
(* Bounds and input sets *)

IntMax == 2
IntMin == -IntMax - 1

Accounts == {"alice", "bob", "carol"}

\* Addresses used as `admin` argument of initialize.
AdminInputs == {"alice", "bob"}

\* Owner / spender arguments of approve.
ApproveOwners == {"alice"}
ApproveSpenders == {"bob"}

\* i128 arguments: a negative amount, zero and every positive amount.
Amounts == -1 .. IntMax

\* The set of addresses that authorized the invocation: nobody, or one of the
\* signing accounts.  carol holds and receives tokens but never signs.
Signers == {"alice", "bob"}
Auths == {{}} \cup {{a} : a \in Signers}

---------------------------------------------------------------------------
(* Program constants *)

MAX_DECIMALS == 18
MAX_NAME_LENGTH == 100
MAX_SYMBOL_LENGTH == 32

\* soroban String values: the text and what len() returns for it.
Str(text, len) == [text |-> text, len |-> len]
EmptyString == Str("", 0)

NameInputs == {EmptyString, Str("Token", 5), Str("n101", 101)}
SymbolInputs == {EmptyString, Str("TKN", 3), Str("s33", 33)}
DecimalsInputs == {7, 19}

\* Arguments on both sides of each limit initialize validates.
NameLimits == {Str("name", n) : n \in {0, 1, 100, 101}}
SymbolLimits == {Str("symbol", n) : n \in {0, 1, 32, 33}}
DecimalsLimits == {0, 18, 19}

\* TokenError (errors.rs)
TokenError == {"AlreadyInitialized", "InvalidAmount", "InsufficientBalance",
               "InsufficientAllowance", "NotInitialized", "InvalidDecimals",
               "OverflowError", "InvalidRecipient", "InvalidMetadata"}

\* What a call yields: Ok(()), Err(e) for e in TokenError, or the host-level
\* abort of a failed require_auth().
Ok == "Ok"
AuthAbort == "AuthAbort"

---------------------------------------------------------------------------
(* DataKey (storage.rs) *)

Balance(a) == <<"Balance", a>>
Allowance(o, s) == <<"Allowance", o, s>>
KTotalSupply == "TotalSupply"
KAdmin == "Admin"
KTokenName == "TokenName"
KTokenSymbol == "TokenSymbol"
KDecimals == "Decimals"
KInitialized == "Initialized"
KInstance == "Instance"

(* Store primitives: has / get / set / remove on a key-value map *)
Has(m, k) == k \in DOMAIN m
Set(m, k, v) == [x \in (DOMAIN m) \cup {k} |-> IF x = k THEN v ELSE m[x]]
Remove(m, k) == [x \in (DOMAIN m) \ {k} |-> m[x]]
GetOr(m, k, d) == IF Has(m, k) THEN m[k] ELSE d

(* Option<i128> *)
None == << >>
Some(v) == <<v>>

checked_add(a, b) == IF a + b > IntMax \/ a + b < IntMin THEN None ELSE Some(a + b)
checked_sub(a, b) == IF a - b > IntMax \/ a - b < IntMin THEN None ELSE Some(a - b)

\* Faulty variant: the authorization of the principal is not demanded.
require_auth_skipped(auth, addr) == TRUE

\* require_auth(): passes iff the address authorized the invocation.
require_auth(auth, addr) == addr \in auth

---------------------------------------------------------------------------
(* Getters *)

balance(pers, account) == GetOr(pers, Balance(account), 0)
allowance(pers, from, spender) == GetOr(pers, Allowance(from, spender), 0)
total_supply(inst) == GetOr(inst, KTotalSupply, 0)
name(inst) == IF ~Has(inst, KInitialized) THEN EmptyString
              ELSE GetOr(inst, KTokenName, EmptyString)
symbol(inst) == IF ~Has(inst, KInitialized) THEN EmptyString
                ELSE GetOr(inst, KTokenSymbol, EmptyString)
decimals(inst) == IF ~Has(inst, KInitialized) THEN 0
                  ELSE GetOr(inst, KDecimals, 0)
\* admin() panics ("Admin not initialized") when the key is absent.
admin(inst) == IF Has(inst, KAdmin) THEN Some(inst[KAdmin]) ELSE None

---------------------------------------------------------------------------
(* Outcome of running a handler *)

Outcome(inst, pers, res, ev, ext) ==
    [inst |-> inst, pers |-> pers, res |-> res, ev |-> ev, ext |-> ext]

Event(topics, data) == [topics |-> topics, data |-> data]

---------------------------------------------------------------------------
(* initialize (lib.rs 111-161) *)

\* Faulty variant: the arguments are validated before the initialized flag
\* is looked at.
initialize_validates_first(inst, pers, admin_, name_, symbol_, decimals_) ==
    IF decimals_ > MAX_DECIMALS THEN
        Outcome(inst, pers, "InvalidDecimals", << >>, {})
    ELSE IF name_.len = 0 \/ name_.len > MAX_NAME_LENGTH THEN
        Outcome(inst, pers, "InvalidMetadata", << >>, {})
    ELSE IF symbol_.len = 0 \/ symbol_.len > MAX_SYMBOL_LENGTH THEN
        Outcome(inst, pers, "InvalidMetadata", << >>, {})
    ELSE IF Has(inst, KInitialized) THEN
        Outcome(inst, pers, "AlreadyInitialized", << >>, {})
    ELSE
        LET i1 == Set(inst, KAdmin, admin_)
            i2 == Set(i1, KTokenName, name_)
            i3 == Set(i2, KTokenSymbol, symbol_)
            i4 == Set(i3, KDecimals, decimals_)
            i5 == Set(i4, KTotalSupply, 0)
            i6 == Set(i5, KInitialized, TRUE)
        IN  Outcome(i6, pers, Ok,
                    << Event(<<"init", admin_>>,
                             [name |-> name_, symbol |-> symbol_,
                              decimals |-> decimals_]) >>,
                    {KInstance})

\* Faulty variant: the initialized flag is not checked.
initialize_unguarded(inst, pers, admin_, name_, symbol_, decimals_) ==
    IF decimals_ > MAX_DECIMALS THEN
        Outcome(inst, pers, "InvalidDecimals", << >>, {})
    ELSE IF name_.len = 0 \/ name_.len > MAX_NAME_LENGTH THEN
        Outcome(inst, pers, "InvalidMetadata", << >>, {})
    ELSE IF symbol_.len = 0 \/ symbol_.len > MAX_SYMBOL_LENGTH THEN
        Outcome(inst, pers, "InvalidMetadata", << >>, {})
    ELSE
        LET i1 == Set(inst, KAdmin, admin_)
            i2 == Set(i1, KTokenName, name_)
            i3 == Set(i2, KTokenSymbol, symbol_)
            i4 == Set(i3, KDecimals, decimals_)
            i5 == Set(i4, KTotalSupply, 0)
            i6 == Set(i5, KInitialized, TRUE)
        IN  Outcome(i6, pers, Ok,
                    << Event(<<"init", admin_>>,
                             [name |-> name_, symbol |-> symbol_,
                              decimals |-> decimals_]) >>,
                    {KInstance})

\* Faulty variant: the text lengths are validated before the decimals.
initialize_metadata_first(inst, pers, admin_, name_, symbol_, decimals_) ==
    IF Has(inst, KInitialized) THEN
        Outcome(inst, pers, "AlreadyInitialized", << >>, {})
    ELSE IF name_.len = 0 \/ name_.len > MAX_NAME_LENGTH THEN
        Outcome(inst, pers, "InvalidMetadata", << >>, {})
    ELSE IF symbol_.len = 0 \/ symbol_.len > MAX_SYMBOL_LENGTH THEN
        Outcome(inst, pers, "InvalidMetadata", << >>, {})
    ELSE IF decimals_ > MAX_DECIMALS THEN
        Outcome(inst, pers, "InvalidDecimals", << >>, {})
    ELSE
        LET i1 == Set(inst, KAdmin, admin_)
            i2 == Set(i1, KTokenName, name_)
            i3 == Set(i2, KTokenSymbol, symbol_)
            i4 == Set(i3, KDecimals, decimals_)
            i5 == Set(i4, KTotalSupply, 0)
            i6 == Set(i5, KInitialized, TRUE)
        IN  Outcome(i6, pers, Ok,
                    << Event(<<"init", admin_>>,
                             [name |-> name_, symbol |-> symbol_,
                              decimals |-> decimals_]) >>,
                    {KInstance})

initialize(inst, pers, admin_, name_, symbol_, decimals_) ==
    IF Has(inst, KInitialized) THEN
        Outcome(inst, pers, "AlreadyInitialized", << >>, {})
    ELSE IF decimals_ > MAX_DECIMALS THEN
        Outcome(inst, pers, "InvalidDecimals", << >>, {})
    ELSE IF name_.len = 0 \/ name_.len > MAX_NAME_LENGTH THEN
        Outcome(inst, pers, "InvalidMetadata", << >>, {})
    ELSE IF symbol_.len = 0 \/ symbol_.len > MAX_SYMBOL_LENGTH THEN
        Outcome(inst, pers, "InvalidMetadata", << >>, {})
    ELSE
        LET i1 == Set(inst, KAdmin, admin_)
            i2 == Set(i1, KTokenName, name_)
            i3 == Set(i2, KTokenSymbol, symbol_)
            i4 == Set(i3, KDecimals, decimals_)
            i5 == Set(i4, KTotalSupply, 0)
            i6 == Set(i5, KInitialized, TRUE)
        IN  Outcome(i6, pers, Ok,
                    << Event(<<"init", admin_>>,
                             [name |-> name_, symbol |-> symbol_,
                              decimals |-> decimals_]) >>,
                    {KInstance})

---------------------------------------------------------------------------
(* mint (lib.rs 163-217) *)

\* Faulty variant: the event carries the supply read before the addition.
mint_event_stale_supply(inst, pers, auth, to, amount) ==
    IF ~Has(inst, KInitialized) THEN
        Outcome(inst, pers, "NotInitialized", << >>, {})
    ELSE IF ~Has(inst, KAdmin) THEN
        Outcome(inst, pers, "NotInitialized", << >>, {})
    ELSE IF ~require_auth(auth, inst[KAdmin]) THEN
        Outcome(inst, pers, AuthAbort, << >>, {})
    ELSE IF amount <= 0 THEN
        Outcome(inst, pers, "InvalidAmount", << >>, {})
    ELSE
        LET bal == balance(pers, to)
            new_balance == checked_add(bal, amount)
        IN  IF new_balance = None THEN
                Outcome(inst, pers, "OverflowError", << >>, {})
            ELSE
                \* the balance is written before the supply is computed
                LET p1 == Set(pers, Balance(to), new_balance[1])
                    total == GetOr(inst, KTotalSupply, 0)
                    new_total == checked_add(total, amount)
                IN  IF new_total = None THEN
                        Outcome(inst, p1, "OverflowError", << >>, {Balance(to)})
                    ELSE
                        Outcome(Set(inst, KTotalSupply, new_total[1]), p1, Ok,
                                << Event(<<"mint", to>>,
                                         <<amount, new_balance[1], total>>) >>,
                                {Balance(to)})

mint(inst, pers, auth, to, amount) ==
    IF ~Has(inst, KInitialized) THEN
        Outcome(inst, pers, "NotInitialized", << >>, {})
    ELSE IF ~Has(inst, KAdmin) THEN
        Outcome(inst, pers, "NotInitialized", << >>, {})
    ELSE IF ~require_auth(auth, inst[KAdmin]) THEN
        Outcome(inst, pers, AuthAbort, << >>, {})
    ELSE IF amount <= 0 THEN
        Outcome(inst, pers, "InvalidAmount", << >>, {})
    ELSE
        LET bal == balance(pers, to)
            new_balance == checked_add(bal, amount)
        IN  IF new_balance = None THEN
                Outcome(inst, pers, "OverflowError", << >>, {})
            ELSE
                \* the balance is written before the supply is computed
                LET p1 == Set(pers, Balance(to), new_balance[1])
                    total == GetOr(inst, KTotalSupply, 0)
                    new_total == checked_add(total, amount)
                IN  IF new_total = None THEN
                        Outcome(inst, p1, "OverflowError", << >>, {Balance(to)})
                    ELSE
                        Outcome(Set(inst, KTotalSupply, new_total[1]), p1, Ok,
                                << Event(<<"mint", to>>,
                                         <<amount, new_balance[1], new_total[1]>>) >>,
                                {Balance(to)})

---------------------------------------------------------------------------
(* burn (lib.rs 219-273) *)

\* Faulty variant: a balance of 0 is stored instead of being removed.
burn_keeps_zero_record(inst, pers, auth, from, amount) ==
    IF ~Has(inst, KInitialized) THEN
        Outcome(inst, pers, "NotInitialized", << >>, {})
    ELSE IF ~require_auth(auth, from) THEN
        Outcome(inst, pers, AuthAbort, << >>, {})
    ELSE IF amount <= 0 THEN
        Outcome(inst, pers, "InvalidAmount", << >>, {})
    ELSE
        LET bal == balance(pers, from)
        IN  IF bal < amount THEN
                Outcome(inst, pers, "InsufficientBalance", << >>, {})
            ELSE
                LET new_balance == bal - amount
                    p1 == Set(pers, Balance(from), new_balance)
                    x1 == {Balance(from)}
                    total == GetOr(inst, KTotalSupply, 0)
                    new_total == checked_sub(total, amount)
                IN  IF new_total = None THEN
                        Outcome(inst, p1, "OverflowError", << >>, x1)
                    ELSE
                        Outcome(Set(inst, KTotalSupply, new_total[1]), p1, Ok,
                                << Event(<<"burn", from>>,
                                         <<amount, new_balance, new_total[1]>>) >>,
                                x1)

\* Faulty variant: the supply is not reduced by the burned amount.
burn_supply_kept(inst, pers, auth, from, amount) ==
    IF ~Has(inst, KInitialized) THEN
        Outcome(inst, pers, "NotInitialized", << >>, {})
    ELSE IF ~require_auth(auth, from) THEN
        Outcome(inst, pers, AuthAbort, << >>, {})
    ELSE IF amount <= 0 THEN
        Outcome(inst, pers, "InvalidAmount", << >>, {})
    ELSE
        LET bal == balance(pers, from)
        IN  IF bal < amount THEN
                Outcome(inst, pers, "InsufficientBalance", << >>, {})
            ELSE
                LET new_balance == bal - amount
                    p1 == IF new_balance = 0
                          THEN Remove(pers, Balance(from))
                          ELSE Set(pers, Balance(from), new_balance)
                    x1 == IF new_balance = 0 THEN {} ELSE {Balance(from)}
                    total == GetOr(inst, KTotalSupply, 0)
                    new_total == checked_sub(total, 0)
                IN  IF new_total = None THEN
                        Outcome(inst, p1, "OverflowError", << >>, x1)
                    ELSE
                        Outcome(Set(inst, KTotalSupply, new_total[1]), p1, Ok,
                                << Event(<<"burn", from>>,
                                         <<amount, new_balance, new_total[1]>>) >>,
                                x1)

burn(inst, pers, auth, from, amount) ==
    IF ~Has(inst, KInitialized) THEN
        Outcome(inst, pers, "NotInitialized", << >>, {})
    ELSE IF ~require_auth(auth, from) THEN
        Outcome(inst, pers, AuthAbort, << >>, {})
    ELSE IF amount <= 0 THEN
        Outcome(inst, pers, "InvalidAmount", << >>, {})
    ELSE
        LET bal == balance(pers, from)
        IN  IF bal < amount THEN
                Outcome(inst, pers, "InsufficientBalance", << >>, {})
            ELSE
                LET new_balance == bal - amount
                    p1 == IF new_balance = 0
                          THEN Remove(pers, Balance(from))
                          ELSE Set(pers, Balance(from), new_balance)
                    x1 == IF new_balance = 0 THEN {} ELSE {Balance(from)}
                    total == GetOr(inst, KTotalSupply, 0)
                    new_total == checked_sub(total, amount)
                IN  IF new_total = None THEN
                        Outcome(inst, p1, "OverflowError", << >>, x1)
                    ELSE
                        Outcome(Set(inst, KTotalSupply, new_total[1]), p1, Ok,
                                << Event(<<"burn", from>>,
                                         <<amount, new_balance, new_total[1]>>) >>,
                                x1)

---------------------------------------------------------------------------
(* transfer (lib.rs 281-349) *)

\* Faulty variant: the sender's balance is not written.
transfer_no_debit(inst, pers, auth, from, to, amount) ==
    IF ~Has(inst, KInitialized) THEN
        Outcome(inst, pers, "NotInitialized", << >>, {})
    ELSE IF ~require_auth(auth, from) THEN
        Outcome(inst, pers, AuthAbort, << >>, {})
    ELSE IF amount <= 0 THEN
        Outcome(inst, pers, "InvalidAmount", << >>, {})
    ELSE IF from = to THEN
        Outcome(inst, pers, "InvalidRecipient", << >>, {})
    ELSE
        LET from_balance == balance(pers, from)
        IN  IF from_balance < amount THEN
                Outcome(inst, pers, "InsufficientBalance", << >>, {})
            ELSE
                LET new_from_balance == from_balance - amount
                    to_balance == balance(pers, to)
                    new_to_balance == checked_add(to_balance, amount)
                IN  IF new_to_balance = None THEN
                        Outcome(inst, pers, "OverflowError", << >>, {})
                    ELSE
                        LET p1 == pers
                            x1 == IF new_from_balance = 0 THEN {} ELSE {Balance(from)}
                            p2 == Set(p1, Balance(to), new_to_balance[1])
                        IN  Outcome(inst, p2, Ok,
                                    << Event(<<"transfer", from, to>>,
                                             <<amount, new_from_balance,
                                               new_to_balance[1]>>) >>,
                                    x1 \cup {Balance(to)})

\* Faulty variant: from = to is rejected only after the balance check.
transfer_recipient_late(inst, pers, auth, from, to, amount) ==
    IF ~Has(inst, KInitialized) THEN
        Outcome(inst, pers, "NotInitialized", << >>, {})
    ELSE IF ~require_auth(auth, from) THEN
        Outcome(inst, pers, AuthAbort, << >>, {})
    ELSE IF amount <= 0 THEN
        Outcome(inst, pers, "InvalidAmount", << >>, {})
    ELSE
        LET from_balance == balance(pers, from)
        IN  IF from_balance < amount THEN
                Outcome(inst, pers, "InsufficientBalance", << >>, {})
            ELSE IF from = to THEN
                Outcome(inst, pers, "InvalidRecipient", << >>, {})
            ELSE
                LET new_from_balance == from_balance - amount
                    to_balance == balance(pers, to)
                    new_to_balance == checked_add(to_balance, amount)
                IN  IF new_to_balance = None THEN
                        Outcome(inst, pers, "OverflowError", << >>, {})
                    ELSE
                        LET p1 == IF new_from_balance = 0
                                  THEN Remove(pers, Balance(from))
                                  ELSE Set(pers, Balance(from), new_from_balance)
                            x1 == IF new_from_balance = 0 THEN {} ELSE {Balance(from)}
                            p2 == Set(p1, Balance(to), new_to_balance[1])
                        IN  Outcome(inst, p2, Ok,
                                    << Event(<<"transfer", from, to>>,
                                             <<amount, new_from_balance,
                                               new_to_balance[1]>>) >>,
                                    x1 \cup {Balance(to)})

transfer(inst, pers, auth, from, to, amount) ==
    IF ~Has(inst, KInitialized) THEN
        Outcome(inst, pers, "NotInitialized", << >>, {})
    ELSE IF ~require_auth(auth, from) THEN
        Outcome(inst, pers, AuthAbort, << >>, {})
    ELSE IF amount <= 0 THEN
        Outcome(inst, pers, "InvalidAmount", << >>, {})
    ELSE IF from = to THEN
        Outcome(inst, pers, "InvalidRecipient", << >>, {})
    ELSE
        LET from_balance == balance(pers, from)
        IN  IF from_balance < amount THEN
                Outcome(inst, pers, "InsufficientBalance", << >>, {})
            ELSE
                LET new_from_balance == from_balance - amount
                    to_balance == balance(pers, to)
                    new_to_balance == checked_add(to_balance, amount)
                IN  IF new_to_balance = None THEN
                        Outcome(inst, pers, "OverflowError", << >>, {})
                    ELSE
                        LET p1 == IF new_from_balance = 0
                                  THEN Remove(pers, Balance(from))
                                  ELSE Set(pers, Balance(from), new_from_balance)
                            x1 == IF new_from_balance = 0 THEN {} ELSE {Balance(from)}
                            p2 == Set(p1, Balance(to), new_to_balance[1])
                        IN  Outcome(inst, p2, Ok,
                                    << Event(<<"transfer", from, to>>,
                                             <<amount, new_from_balance,
                                               new_to_balance[1]>>) >>,
                                    x1 \cup {Balance(to)})

---------------------------------------------------------------------------
(* approve (lib.rs 351-398) *)

\* Faulty variant: authorization is demanded before the initialized flag is
\* looked at.
approve_auth_first(inst, pers, auth, from, spender, amount) ==
    IF ~require_auth(auth, from) THEN
        Outcome(inst, pers, AuthAbort, << >>, {})
    ELSE IF ~Has(inst, KInitialized) THEN
        Outcome(inst, pers, "NotInitialized", << >>, {})
    ELSE IF amount < 0 THEN
        Outcome(inst, pers, "InvalidAmount", << >>, {})
    ELSE
        LET old_allowance == allowance(pers, from, spender)
            p1 == IF amount = 0
                  THEN Remove(pers, Allowance(from, spender))
                  ELSE Set(pers, Allowance(from, spender), amount)
            x1 == IF amount = 0 THEN {} ELSE {Allowance(from, spender)}
        IN  Outcome(inst, p1, Ok,
                    << Event(<<"approve", from, spender>>,
                             <<old_allowance, amount>>) >>,
                    x1)

\* Faulty variant: the amount is added to the previous allowance.
approve_adds(inst, pers, auth, from, spender, amount) ==
    IF ~Has(inst, KInitialized) THEN
        Outcome(inst, pers, "NotInitialized", << >>, {})
    ELSE IF ~require_auth(auth, from) THEN
        Outcome(inst, pers, AuthAbort, << >>, {})
    ELSE IF amount < 0 THEN
        Outcome(inst, pers, "InvalidAmount", << >>, {})
    ELSE
        LET old_allowance == allowance(pers, from, spender)
            p1 == IF amount = 0
                  THEN Remove(pers, Allowance(from, spender))
                  ELSE Set(pers, Allowance(from, spender), old_allowance + amount)
            x1 == IF amount = 0 THEN {} ELSE {Allowance(from, spender)}
        IN  Outcome(inst, p1, Ok,
                    << Event(<<"approve", from, spender>>,
                             <<old_allowance, amount>>) >>,
                    x1)

\* Faulty variant: an allowance of 0 is stored instead of being removed.
approve_stores_zero(inst, pers, auth, from, spender, amount) ==
    IF ~Has(inst, KInitialized) THEN
        Outcome(inst, pers, "NotInitialized", << >>, {})
    ELSE IF ~require_auth(auth, from) THEN
        Outcome(inst, pers, AuthAbort, << >>, {})
    ELSE IF amount < 0 THEN
        Outcome(inst, pers, "InvalidAmount", << >>, {})
    ELSE
        LET old_allowance == allowance(pers, from, spender)
            p1 == Set(pers, Allowance(from, spender), amount)
            x1 == {Allowance(from, spender)}
        IN  Outcome(inst, p1, Ok,
                    << Event(<<"approve", from, spender>>,
                             <<old_allowance, amount>>) >>,
                    x1)

\* Faulty variant: revoking an allowance that is not stored is rejected.
approve_revoke_needs_record(inst, pers, auth, from, spender, amount) ==
    IF ~Has(inst, KInitialized) THEN
        Outcome(inst, pers, "NotInitialized", << >>, {})
    ELSE IF ~require_auth(auth, from) THEN
        Outcome(inst, pers, AuthAbort, << >>, {})
    ELSE IF amount < 0 \/ (amount = 0 /\ allowance(pers, from, spender) = 0) THEN
        Outcome(inst, pers, "InvalidAmount", << >>, {})
    ELSE
        LET old_allowance == allowance(pers, from, spender)
            p1 == IF amount = 0
                  THEN Remove(pers, Allowance(from, spender))
                  ELSE Set(pers, Allowance(from, spender), amount)
            x1 == IF amount = 0 THEN {} ELSE {Allowance(from, spender)}
        IN  Outcome(inst, p1, Ok,
                    << Event(<<"approve", from, spender>>,
                             <<old_allowance, amount>>) >>,
                    x1)

approve(inst, pers, auth, from, spender, amount) ==
    IF ~Has(inst, KInitialized) THEN
        Outcome(inst, pers, "NotInitialized", << >>, {})
    ELSE IF ~require_auth(auth, from) THEN
        Outcome(inst, pers, AuthAbort, << >>, {})
    ELSE IF amount < 0 THEN
        Outcome(inst, pers, "InvalidAmount", << >>, {})
    ELSE
        LET old_allowance == allowance(pers, from, spender)
            p1 == IF amount = 0
                  THEN Remove(pers, Allowance(from, spender))
                  ELSE Set(pers, Allowance(from, spender), amount)
            x1 == IF amount = 0 THEN {} ELSE {Allowance(from, spender)}
        IN  Outcome(inst, p1, Ok,
                    << Event(<<"approve", from, spender>>,
                             <<old_allowance, amount>>) >>,
                    x1)

---------------------------------------------------------------------------
(* transfer_from (lib.rs 406-499) *)

\* Faulty variant: the allowance is not reduced by the amount moved.
transfer_from_allowance_kept(inst, pers, auth, spender, from, to, amount) ==
    IF ~Has(inst, KInitialized) THEN
        Outcome(inst, pers, "NotInitialized", << >>, {})
    ELSE IF ~require_auth(auth, spender) THEN
        Outcome(inst, pers, AuthAbort, << >>, {})
    ELSE IF amount <= 0 THEN
        Outcome(inst, pers, "InvalidAmount", << >>, {})
    ELSE IF from = to THEN
        Outcome(inst, pers, "InvalidRecipient", << >>, {})
    ELSE
        LET allowed == allowance(pers, from, spender)
        IN  IF allowed < amount THEN
                Outcome(inst, pers, "InsufficientAllowance", << >>, {})
            ELSE
                LET from_balance == balance(pers, from)
                IN  IF from_balance < amount THEN
                        Outcome(inst, pers, "InsufficientBalance", << >>, {})
                    ELSE
                        LET new_from_balance == from_balance - amount
                            to_balance == balance(pers, to)
                            new_to_balance == checked_add(to_balance, amount)
                            new_allowance == allowed
                        IN  IF new_to_balance = None THEN
                                Outcome(inst, pers, "OverflowError", << >>, {})
                            ELSE
                                LET p1 == IF new_from_balance = 0
                                          THEN Remove(pers, Balance(from))
                                          ELSE Set(pers, Balance(from), new_from_balance)
                                    x1 == IF new_from_balance = 0 THEN {}
                                          ELSE {Balance(from)}
                                    p2 == Set(p1, Balance(to), new_to_balance[1])
                                    p3 == IF new_allowance = 0
                                          THEN Remove(p2, Allowance(from, spender))
                                          ELSE Set(p2, Allowance(from, spender),
                                                   new_allowance)
                                    x3 == IF new_allowance = 0 THEN {}
                                          ELSE {Allowance(from, spender)}
                                IN  Outcome(inst, p3, Ok,
                                            << Event(<<"trnsf_frm", spender, from, to>>,
                                                     <<amount, new_from_balance,
                                                       new_to_balance[1],
                                                       new_allowance>>) >>,
                                            x1 \cup {Balance(to)} \cup x3)

\* Faulty variant: the allowance is not compared with the amount.
transfer_from_allowance_unchecked(inst, pers, auth, spender, from, to, amount) ==
    IF ~Has(inst, KInitialized) THEN
        Outcome(inst, pers, "NotInitialized", << >>, {})
    ELSE IF ~require_auth(auth, spender) THEN
        Outcome(inst, pers, AuthAbort, << >>, {})
    ELSE IF amount <= 0 THEN
        Outcome(inst, pers, "InvalidAmount", << >>, {})
    ELSE IF from = to THEN
        Outcome(inst, pers, "InvalidRecipient", << >>, {})
    ELSE
        LET allowed == allowance(pers, from, spender)
        IN  IF allowed < 0 THEN
                Outcome(inst, pers, "InsufficientAllowance", << >>, {})
            ELSE
                LET from_balance == balance(pers, from)
                IN  IF from_balance < amount THEN
                        Outcome(inst, pers, "InsufficientBalance", << >>, {})
                    ELSE
                        LET new_from_balance == from_balance - amount
                            to_balance == balance(pers, to)
                            new_to_balance == checked_add(to_balance, amount)
                            new_allowance == allowed - amount
                        IN  IF new_to_balance = None THEN
                                Outcome(inst, pers, "OverflowError", << >>, {})
                            ELSE
                                LET p1 == IF new_from_balance = 0
                                          THEN Remove(pers, Balance(from))
                                          ELSE Set(pers, Balance(from), new_from_balance)
                                    x1 == IF new_from_balance = 0 THEN {}
                                          ELSE {Balance(from)}
                                    p2 == Set(p1, Balance(to), new_to_balance[1])
                                    p3 == IF new_allowance = 0
                                          THEN Remove(p2, Allowance(from, spender))
                                          ELSE Set(p2, Allowance(from, spender),
                                                   new_allowance)
                                    x3 == IF new_allowance = 0 THEN {}
                                          ELSE {Allowance(from, spender)}
                                IN  Outcome(inst, p3, Ok,
                                            << Event(<<"trnsf_frm", spender, from, to>>,
                                                     <<amount, new_from_balance,
                                                       new_to_balance[1],
                                                       new_allowance>>) >>,
                                            x1 \cup {Balance(to)} \cup x3)

transfer_from(inst, pers, auth, spender, from, to, amount) ==
    IF ~Has(inst, KInitialized) THEN
        Outcome(inst, pers, "NotInitialized", << >>, {})
    ELSE IF ~require_auth(auth, spender) THEN
        Outcome(inst, pers, AuthAbort, << >>, {})
    ELSE IF amount <= 0 THEN
        Outcome(inst, pers, "InvalidAmount", << >>, {})
    ELSE IF from = to THEN
        Outcome(inst, pers, "InvalidRecipient", << >>, {})
    ELSE
        LET allowed == allowance(pers, from, spender)
        IN  IF allowed < amount THEN
                Outcome(inst, pers, "InsufficientAllowance", << >>, {})
            ELSE
                LET from_balance == balance(pers, from)
                IN  IF from_balance < amount THEN
                        Outcome(inst, pers, "InsufficientBalance", << >>, {})
                    ELSE
                        LET new_from_balance == from_balance - amount
                            to_balance == balance(pers, to)
                            new_to_balance == checked_add(to_balance, amount)
                            new_allowance == allowed - amount
                        IN  IF new_to_balance = None THEN
                                Outcome(inst, pers, "OverflowError", << >>, {})
                            ELSE
                                LET p1 == IF new_from_balance = 0
                                          THEN Remove(pers, Balance(from))
                                          ELSE Set(pers, Balance(from), new_from_balance)
                                    x1 == IF new_from_balance = 0 THEN {}
                                          ELSE {Balance(from)}
                                    p2 == Set(p1, Balance(to), new_to_balance[1])
                                    p3 == IF new_allowance = 0
                                          THEN Remove(p2, Allowance(from, spender))
                                          ELSE Set(p2, Allowance(from, spender),
                                                   new_allowance)
                                    x3 == IF new_allowance = 0 THEN {}
                                          ELSE {Allowance(from, spender)}
                                IN  Outcome(inst, p3, Ok,
                                            << Event(<<"trnsf_frm", spender, from, to>>,
                                                     <<amount, new_from_balance,
                                                       new_to_balance[1],
                                                       new_allowance>>) >>,
                                            x1 \cup {Balance(to)} \cup x3)

---------------------------------------------------------------------------
(* The state machine: submission of an invocation, then one action per     *)
(* entry point that runs the whole handler.                                *)

NoCall == [op |-> "none"]

Invocations ==
    {[op |-> "initialize", admin |-> a, name |-> n, symbol |-> s, decimals |-> d] :
        a \in AdminInputs, n \in NameInputs, s \in SymbolInputs, d \in DecimalsInputs}
    \cup {[op |-> "mint", auth |-> au, to |-> to, amount |-> x] :
        au \in Auths, to \in Accounts, x \in Amounts}
    \cup {[op |-> "burn", auth |-> au, from |-> f, amount |-> x] :
        au \in Auths, f \in Accounts, x \in Amounts}
    \cup {[op |-> "transfer", auth |-> au, from |-> f, to |-> to, amount |-> x] :
        au \in Auths, f \in Accounts, to \in Accounts, x \in Amounts}
    \cup {[op |-> "approve", auth |-> au, from |-> o, spender |-> sp, amount |-> x] :
        au \in Auths, o \in ApproveOwners, sp \in ApproveSpenders, x \in Amounts}
    \cup {[op |-> "transfer_from", auth |-> au, spender |-> sp, from |-> f,
           to |-> to, amount |-> x] :
        au \in Auths, sp \in Signers, f \in Accounts, to \in Accounts, x \in Amounts}

Init ==
    /\ instance = << >>
    /\ persistent = << >>
    /\ invocation = NoCall
    /\ events = << >>
    /\ extended = {}
    /\ lastOp = "none"
    /\ lastResult = "none"
    /\ exhausted = {}
    /\ minted = None
    /\ revoked = None
    /\ unspent = << >>

\* The host takes the next invocation; nothing of it has run yet.
Submit(inv) ==
    /\ invocation.op = "none"
    /\ invocation' = inv
    /\ events' = << >>
    /\ extended' = {}
    /\ lastOp' = "none"
    /\ lastResult' = "none"
    /\ minted' = IF /\ minted # None
                     /\ lastOp = "mint"
                     /\ inv.op = "burn"
                     /\ inv.from = minted[1].to
                     /\ inv.amount = minted[1].amount
                  THEN minted
                  ELSE None
    /\ revoked' = IF /\ revoked # None
                      /\ inv.op = "approve"
                      /\ inv.from = revoked[1].owner
                      /\ inv.spender = revoked[1].spender
                      /\ inv.amount = 0
                   THEN revoked
                   ELSE None
    /\ UNCHANGED <<instance, persistent, exhausted, unspent>>

\* What is left of the amount the owner p[1] last approved for the spender
\* p[2].
Unspent(p) == GetOr(unspent, p, 0)

\* Completion of a handler: the stores it leaves, the events it published,
\* the retention extensions it requested and its return value.
Apply(r) ==
    /\ instance' = r.inst
    /\ persistent' = r.pers
    /\ events' = r.ev
    /\ extended' = r.ext
    /\ lastOp' = invocation.op
    /\ lastResult' = r.res
    /\ invocation' = NoCall
    /\ exhausted' =
          IF r.res = Ok /\ invocation.op = "transfer_from"
                /\ ~Has(r.pers, Allowance(invocation.from, invocation.spender))
          THEN exhausted \cup {<<invocation.from, invocation.spender>>}
          ELSE IF r.res = Ok /\ invocation.op = "approve"
          THEN exhausted \ {<<invocation.from, invocation.spender>>}
          ELSE exhausted
    /\ minted' =
          IF r.res = Ok /\ invocation.op = "mint"
          THEN Some([to |-> invocation.to,
                     amount |-> invocation.amount,
                     balance |-> balance(persistent, invocation.to),
                     supply |-> total_supply(instance),
                     record |-> Has(persistent, Balance(invocation.to))])
          ELSE IF r.res = Ok /\ invocation.op = "burn"
          THEN minted
          ELSE None
    /\ revoked' =
          IF r.res = Ok /\ invocation.op = "approve" /\ invocation.amount = 0
          THEN Some([owner |-> invocation.from,
                     spender |-> invocation.spender,
                     twice |-> revoked # None])
          ELSE None
    /\ unspent' =
          LET pair == <<invocation.from, invocation.spender>>
              left == IF invocation.op = "approve"
                      THEN invocation.amount
                      ELSE Unspent(pair) - invocation.amount
          IN  IF r.res = Ok /\ invocation.op \in {"approve", "transfer_from"}
              THEN IF left = 0 THEN Remove(unspent, pair)
                               ELSE Set(unspent, pair, left)
              ELSE unspent

Initialize ==
    /\ invocation.op = "initialize"
    /\ Apply(initialize(instance, persistent, invocation.admin, invocation.name,
                        invocation.symbol, invocation.decimals))

Mint ==
    /\ invocation.op = "mint"
    /\ Apply(mint(instance, persistent, invocation.auth, invocation.to,
                  invocation.amount))

Burn ==
    /\ invocation.op = "burn"
    /\ Apply(burn(instance, persistent, invocation.auth, invocation.from,
                  invocation.amount))

Transfer ==
    /\ invocation.op = "transfer"
    /\ Apply(transfer(instance, persistent, invocation.auth, invocation.from,
                      invocation.to, invocation.amount))

Approve ==
    /\ invocation.op = "approve"
    /\ Apply(approve(instance, persistent, invocation.auth, invocation.from,
                     invocation.spender, invocation.amount))

TransferFrom ==
    /\ invocation.op = "transfer_from"
    /\ Apply(transfer_from(instance, persistent, invocation.auth,
                           invocation.spender, invocation.from, invocation.to,
                           invocation.amount))

Next ==
    \/ \E inv \in Invocations : Submit(inv)
    \/ Initialize
    \/ Mint
    \/ Burn
    \/ Transfer
    \/ Approve
    \/ TransferFrom

Spec == Init /\ [][Next]_vars

---------------------------------------------------------------------------
(* Type correctness *)

TypeOK ==
    /\ DOMAIN instance \subseteq {KAdmin, KTokenName, KTokenSymbol, KDecimals,
                                  KTotalSupply, KInitialized}
    /\ \A k \in DOMAIN persistent : persistent[k] \in IntMin .. IntMax
    /\ Len(events) <= 1
    /\ lastResult \in TokenError \cup {Ok, AuthAbort, "none"}
    /\ minted = None \/ minted[1].to \in Accounts
    /\ revoked = None \/ revoked[1].owner \in Accounts
    /\ DOMAIN unspent \subseteq Accounts \X Accounts

---------------------------------------------------------------------------
(* Observations used by the properties *)

initialized == Has(instance, KInitialized)

RECURSIVE SumBalances(_, _)
SumBalances(pers, S) ==
    IF S = {} THEN 0
    ELSE LET a == CHOOSE x \in S : TRUE
         IN  balance(pers, a) + SumBalances(pers, S \ {a})

\* accounts with a stored balance record
Holders(pers) == {a \in Accounts : Has(pers, Balance(a))}

StoreUnchanged == instance' = instance /\ persistent' = persistent

\* the step is the run of the handler of entry point op
Runs(op) == invocation.op = op /\ invocation'.op = "none"
Returns(res) == lastResult' = res

---------------------------------------------------------------------------
\* C1: in every reachable state total_supply() equals the sum of balance(a)
\* over all accounts a that have a stored balance record.
C1_SupplyEqualsSumOfBalances ==
    total_supply(instance) = SumBalances(persistent, Holders(persistent))

\* C2: a call that returns a declared error (any TokenError) leaves the whole
\* store (balances, allowances, supply, admin, metadata, initialized flag)
\* as it was before the call and publishes no event.
C2_ErrorLeavesStoreUnchanged ==
    [][lastResult' \in TokenError => StoreUnchanged /\ events' = << >>]_vars

\* C3: mint, burn, transfer, approve and transfer_from change state only with
\* the authorization of their principal (stored admin, from, from, owner,
\* spender): a call lacking it does not succeed, aborts once the ledger is
\* initialized, and leaves every balance, allowance and the supply unchanged
\* and publishes no event.
Principal ==
    CASE invocation.op = "mint" -> admin(instance)
      [] invocation.op \in {"burn", "transfer", "approve"} -> Some(invocation.from)
      [] invocation.op = "transfer_from" -> Some(invocation.spender)

LacksAuthorization ==
    /\ invocation.op \in {"mint", "burn", "transfer", "approve", "transfer_from"}
    /\ \A i \in 1 .. Len(Principal) : Principal[i] \notin invocation.auth

C3_NoMutationWithoutAuthorization ==
    [][ LacksAuthorization =>
          /\ lastResult' # Ok
          /\ initialized => lastResult' = AuthAbort
          /\ StoreUnchanged
          /\ events' = << >> ]_vars

\* C3 witness: an initialized ledger holding balances and an allowance on
\* which a call was just aborted for lack of authorization.
C3_Witness ==
    /\ initialized
    /\ lastResult = AuthAbort
    /\ lastOp = "transfer_from"
    /\ allowance(persistent, "alice", "bob") > 0
    /\ balance(persistent, "alice") > 0

---------------------------------------------------------------------------
\* C4: initialize succeeds at most once: once the ledger is initialized, every
\* later initialize, whatever its arguments (valid or invalid decimals, name,
\* symbol), returns AlreadyInitialized and performs no writes.
C4_InitializeOnlyOnce ==
    [][ (initialized /\ Runs("initialize")) =>
          /\ Returns("AlreadyInitialized")
          /\ StoreUnchanged
          /\ events' = << >> ]_vars

\* C4 witness: an initialize call was just rejected on an initialized ledger.
C4_Witness ==
    /\ initialized
    /\ lastOp = "initialize"
    /\ lastResult = "AlreadyInitialized"

\* C5: a successful initialize stores the admin, name, symbol and decimals it
\* was given and sets the initialized flag; from then on these five entries
\* keep their values in every later state.
MetadataKeys == {KAdmin, KTokenName, KTokenSymbol, KDecimals, KInitialized}

C5_MetadataFrozenAfterInitialize ==
    [][ /\ (Runs("initialize") /\ Returns(Ok)) =>
              /\ Has(instance', KInitialized)
              /\ admin(instance') = Some(invocation.admin)
              /\ name(instance') = invocation.name
              /\ symbol(instance') = invocation.symbol
              /\ decimals(instance') = invocation.decimals
        /\ initialized =>
              \/ instance' = instance
              \/ \A k \in MetadataKeys :
                     Has(instance, k) /\ Has(instance', k) /\ instance'[k] = instance[k]
      ]_vars

\* C5 witness: tokens were minted, approved and moved by a spender on a ledger
\* whose admin and metadata are still the stored ones.
C5_Witness ==
    /\ initialized
    /\ lastOp = "transfer_from"
    /\ lastResult = Ok
    /\ admin(instance) = Some("bob")
    /\ name(instance) = Str("Token", 5)

\* C6: while the ledger is not initialized, every mint, burn, transfer,
\* approve and transfer_from returns NotInitialized whatever its arguments and
\* whoever authorized it, no balance or allowance record exists and the
\* supply is 0.
C6_UninitializedRejectsAll ==
    [][ (~initialized /\ invocation.op \in {"mint", "burn", "transfer", "approve",
                                            "transfer_from"}
                      /\ invocation'.op = "none") =>
          /\ Returns("NotInitialized")
          /\ DOMAIN persistent = {}
          /\ DOMAIN persistent' = {}
          /\ total_supply(instance') = 0
          /\ ~Has(instance', KInitialized) ]_vars

\* C6 witness: a transfer_from was just rejected on an uninitialized ledger.
C6_Witness ==
    /\ ~initialized
    /\ lastOp = "transfer_from"
    /\ lastResult = "NotInitialized"

\* C7: a successful transfer(from, to, X) decreases balance(from) by exactly X,
\* increases balance(to) by exactly X and leaves total_supply(), every other
\* balance and every allowance unchanged.
C7_TransferConservation ==
    [][ (Runs("transfer") /\ Returns(Ok)) =>
          LET f == invocation.from
              t == invocation.to
              x == invocation.amount
          IN  /\ balance(persistent', f) = balance(persistent, f) - x
              /\ balance(persistent', t) = balance(persistent, t) + x
              /\ total_supply(instance') = total_supply(instance)
              /\ \A a \in Accounts \ {f, t} :
                     balance(persistent', a) = balance(persistent, a)
              /\ \A o \in Accounts, sp \in Accounts :
                     allowance(persistent', o, sp) = allowance(persistent, o, sp)
      ]_vars

\* C7 witness: a transfer from alice to bob just succeeded while carol holds
\* tokens and alice's allowance to bob is non-zero.
C7_Witness ==
    /\ lastOp = "transfer"
    /\ lastResult = Ok
    /\ events[1].topics = <<"transfer", "alice", "bob">>
    /\ balance(persistent, "carol") > 0
    /\ allowance(persistent, "alice", "bob") > 0

---------------------------------------------------------------------------
\* C8 (effect): a successful transfer_from(spender, from, to, X) decreases
\* balance(from) by X, increases balance(to) by X and decreases
\* allowance(from, spender) by exactly X, leaving the supply, all other
\* balances and all other allowances unchanged; an allowance that reaches 0
\* has its record removed; and no allowance record appears again until an
\* approve for that owner and spender runs.
TransferFromEffect ==
    (Runs("transfer_from") /\ Returns(Ok)) =>
        LET sp == invocation.spender
            f == invocation.from
            t == invocation.to
            x == invocation.amount
        IN  /\ balance(persistent', f) = balance(persistent, f) - x
            /\ balance(persistent', t) = balance(persistent, t) + x
            /\ allowance(persistent', f, sp) = allowance(persistent, f, sp) - x
            /\ total_supply(instance') = total_supply(instance)
            /\ \A a \in Accounts \ {f, t} :
                   balance(persistent', a) = balance(persistent, a)
            /\ \A o \in Accounts, s2 \in Accounts :
                   <<o, s2>> # <<f, sp>> =>
                       allowance(persistent', o, s2) = allowance(persistent, o, s2)
            /\ allowance(persistent', f, sp) = 0 =>
                   ~Has(persistent', Allowance(f, sp))

OnlyApproveCreatesAllowance ==
    persistent' # persistent =>
        \A o \in Accounts, s2 \in Accounts :
            (~Has(persistent, Allowance(o, s2)) /\ Has(persistent', Allowance(o, s2))) =>
                /\ Runs("approve")
                /\ invocation.from = o
                /\ invocation.spender = s2

\* the allowance of a pair that a transfer_from has used up stays without a
\* record until the next approve for that pair
ExhaustedHasNoRecord ==
    \A pr \in exhausted' : ~Has(persistent', Allowance(pr[1], pr[2]))

\* a further transfer_from of amount >= 1, authorized by its spender, from an
\* owner whose allowance to that spender has been used up
ExhaustedAllowanceCall ==
    /\ Runs("transfer_from")
    /\ <<invocation.from, invocation.spender>> \in exhausted
    /\ invocation.spender \in invocation.auth
    /\ invocation.amount >= 1

\* the same call on any initialized ledger that holds no allowance record for
\* (from, spender)
NoAllowanceCall ==
    /\ Runs("transfer_from")
    /\ initialized
    /\ ~Has(persistent, Allowance(invocation.from, invocation.spender))
    /\ invocation.spender \in invocation.auth
    /\ invocation.amount >= 1

\* C8 as stated: with the effect above, once the allowance record is gone ANY
\* further transfer_from by that spender from that owner with amount >= 1
\* fails with InsufficientAllowance until a new approve.
C8_TransferFrom_AsStated ==
    [][ /\ TransferFromEffect
        /\ OnlyApproveCreatesAllowance
        /\ ExhaustedHasNoRecord
        /\ ExhaustedAllowanceCall =>
              (Returns("InsufficientAllowance") /\ StoreUnchanged) ]_vars

\* C8 amended: the same, where the further transfer_from fails with
\* InsufficientAllowance when its recipient differs from the owner
\* (from # to) and with InvalidRecipient when from = to; it never succeeds.
C8_TransferFrom_Amended ==
    [][ /\ TransferFromEffect
        /\ OnlyApproveCreatesAllowance
        /\ ExhaustedHasNoRecord
        /\ (ExhaustedAllowanceCall \/ NoAllowanceCall) =>
              /\ StoreUnchanged
              /\ invocation.from # invocation.to => Returns("InsufficientAllowance")
              /\ invocation.from = invocation.to => Returns("InvalidRecipient")
      ]_vars

\* C8 witness: bob just moved alice's tokens to carol and used up his whole
\* allowance, whose record is gone.
C8_Witness ==
    /\ lastOp = "transfer_from"
    /\ lastResult = Ok
    /\ events[1].topics = <<"trnsf_frm", "bob", "alice", "carol">>
    /\ events[1].data[4] = 0
    /\ ~Has(persistent, Allowance("alice", "bob"))
    /\ <<"alice", "bob">> \in exhausted

\* C9: an admin-authorized mint(to, amount) with amount > 0 for which
\* balance(to) + amount or total_supply() + amount exceeds the integer maximum
\* returns OverflowError and leaves balance(to) and total_supply() at their
\* values from before the call.
C9_MintOverflowLeavesStateUnchanged ==
    [][ ( /\ Runs("mint")
          /\ initialized
          /\ admin(instance) = Some(instance[KAdmin])
          /\ instance[KAdmin] \in invocation.auth
          /\ invocation.amount > 0
          /\ \/ balance(persistent, invocation.to) + invocation.amount > IntMax
             \/ total_supply(instance) + invocation.amount > IntMax ) =>
          /\ Returns("OverflowError")
          /\ balance(persistent', invocation.to) = balance(persistent, invocation.to)
          /\ total_supply(instance') = total_supply(instance) ]_vars

\* C10: when several preconditions of an initialized, authorized call fail at
\* once the error returned is the first in the documented order:
\* transfer_from: InvalidAmount, InvalidRecipient, InsufficientAllowance,
\* InsufficientBalance, OverflowError; transfer: InvalidAmount,
\* InvalidRecipient, InsufficientBalance, OverflowError.
FirstFailure(checks) ==
    IF \E i \in 1 .. Len(checks) : checks[i][1]
    THEN checks[CHOOSE i \in 1 .. Len(checks) :
                    checks[i][1] /\ \A j \in 1 .. (i - 1) : ~checks[j][1]][2]
    ELSE Ok

TransferChecks ==
    LET f == invocation.from
        t == invocation.to
        x == invocation.amount
    IN  << <<x <= 0, "InvalidAmount">>,
           <<f = t, "InvalidRecipient">>,
           <<balance(persistent, f) < x, "InsufficientBalance">>,
           <<balance(persistent, t) + x > IntMax, "OverflowError">> >>

TransferFromChecks ==
    LET sp == invocation.spender
        f == invocation.from
        t == invocation.to
        x == invocation.amount
    IN  << <<x <= 0, "InvalidAmount">>,
           <<f = t, "InvalidRecipient">>,
           <<allowance(persistent, f, sp) < x, "InsufficientAllowance">>,
           <<balance(persistent, f) < x, "InsufficientBalance">>,
           <<balance(persistent, t) + x > IntMax, "OverflowError">> >>

C10_ErrorPrecedence ==
    [][ /\ (Runs("transfer") /\ initialized /\ invocation.from \in invocation.auth)
              => Returns(FirstFailure(TransferChecks))
        /\ (Runs("transfer_from") /\ initialized
                /\ invocation.spender \in invocation.auth)
              => Returns(FirstFailure(TransferFromChecks))
      ]_vars

\* C10 witness: a transfer was just rejected with InvalidRecipient on an
\* initialized ledger on which no signer holds a balance, so that the balance
\* check of that call failed as well.
C10_Witness ==
    /\ initialized
    /\ lastOp = "transfer"
    /\ lastResult = "InvalidRecipient"
    /\ \A a \in Signers : balance(persistent, a) = 0

---------------------------------------------------------------------------
\* C11: an owner-authorized approve(owner, spender, amount) on an initialized
\* ledger with amount >= 0 succeeds and sets allowance(owner, spender) to
\* exactly amount (overwriting the previous value, whatever the owner's
\* balance), changes no balance, no other allowance and not the supply;
\* amount = 0 succeeds as a revoke; amount < 0 returns InvalidAmount.
C11_ApproveSetsAllowance ==
    [][ (Runs("approve") /\ initialized /\ invocation.from \in invocation.auth) =>
          LET o == invocation.from
              sp == invocation.spender
              x == invocation.amount
          IN  IF x < 0
              THEN Returns("InvalidAmount") /\ StoreUnchanged
              ELSE /\ Returns(Ok)
                   /\ allowance(persistent', o, sp) = x
                   /\ x = 0 => ~Has(persistent', Allowance(o, sp))
                   /\ instance' = instance
                   /\ \A a \in Accounts :
                          balance(persistent', a) = balance(persistent, a)
                   /\ \A o2 \in Accounts, s2 \in Accounts :
                          <<o2, s2>> # <<o, sp>> =>
                              allowance(persistent', o2, s2)
                                  = allowance(persistent, o2, s2)
      ]_vars

\* C11 witness: alice, who holds no tokens, just replaced her allowance of 2
\* to bob by an allowance of 1.
C11_Witness ==
    /\ lastOp = "approve"
    /\ lastResult = Ok
    /\ events[1].topics = <<"approve", "alice", "bob">>
    /\ events[1].data = <<2, 1>>
    /\ allowance(persistent, "alice", "bob") = 1
    /\ balance(persistent, "alice") = 0

---------------------------------------------------------------------------
\* C12: a successful mint(to, X) immediately followed by a successful
\* burn(to, X) returns balance(to) and total_supply() to the values they had
\* before the mint and restores the presence or absence of to's balance
\* record.
C12_MintBurnRoundTrip ==
    (lastOp = "burn" /\ lastResult = Ok /\ minted # None) =>
        LET m == minted[1]
        IN  /\ balance(persistent, m.to) = m.balance
            /\ total_supply(instance) = m.supply
            /\ Has(persistent, Balance(m.to)) <=> m.record

\* C12 witness: a burn just undid the mint that preceded it, on an account
\* that had no balance record before the mint.
C12_Witness ==
    /\ lastOp = "burn"
    /\ lastResult = Ok
    /\ minted # None
    /\ ~minted[1].record
    /\ events[1].topics = <<"burn", minted[1].to>>
    /\ events[1].data[1] = minted[1].amount

---------------------------------------------------------------------------
\* C13: total_supply() changes only in a successful mint, where it grows by
\* exactly the minted amount, and in a successful burn, where it shrinks by
\* exactly the burned amount; every other step, a failed call included,
\* leaves it unchanged.
C13_SupplyChangesOnlyInMintAndBurn ==
    [][ IF Runs("mint") /\ Returns(Ok)
        THEN total_supply(instance') = total_supply(instance) + invocation.amount
        ELSE IF Runs("burn") /\ Returns(Ok)
        THEN total_supply(instance') = total_supply(instance) - invocation.amount
        ELSE total_supply(instance') = total_supply(instance) ]_vars

\* C13 witness: a burn of 1 has just brought the supply from 2 down to 1.
C13_Witness ==
    /\ lastOp = "burn"
    /\ lastResult = Ok
    /\ events[1].data[1] = 1
    /\ events[1].data[3] = 1
    /\ total_supply(instance) = 1

---------------------------------------------------------------------------
\* C14: in every reachable state balance(a) >= 0 for every account a,
\* allowance(o, s) >= 0 for every pair (o, s), and total_supply() >= 0.
C14_AmountsNonNegative ==
    /\ \A a \in Accounts : balance(persistent, a) >= 0
    /\ \A o \in Accounts, s \in Accounts : allowance(persistent, o, s) >= 0
    /\ total_supply(instance) >= 0

---------------------------------------------------------------------------
\* C15: in every reachable state no stored balance record and no stored
\* allowance record holds 0: a record exists exactly when its amount is
\* greater than 0.
C15_NoZeroRecords ==
    /\ \A k \in DOMAIN persistent : persistent[k] # 0
    /\ \A a \in Accounts :
           Has(persistent, Balance(a)) <=> balance(persistent, a) > 0
    /\ \A o \in Accounts, s \in Accounts :
           Has(persistent, Allowance(o, s)) <=> allowance(persistent, o, s) > 0

\* C15 witness: a transfer_from has just brought both the owner's balance
\* and the spender's allowance back to 0, and neither record is stored.
C15_Witness ==
    /\ lastOp = "transfer_from"
    /\ lastResult = Ok
    /\ events[1].topics[2] = "bob"
    /\ events[1].topics[3] = "alice"
    /\ ~Has(persistent, Balance("alice"))
    /\ ~Has(persistent, Allowance("alice", "bob"))
    /\ Has(persistent, Balance(events[1].topics[4]))

---------------------------------------------------------------------------
\* C16: approve(o, s, 0) called twice in a row yields the same state as
\* calling it once: the second call succeeds, allowance(o, s) is 0 with no
\* stored record, and the stores are as the first call left them.
C16_RevokeTwiceIsRevokeOnce ==
    [][ ( /\ Runs("approve")
          /\ revoked # None
          /\ invocation.from = revoked[1].owner
          /\ invocation.spender = revoked[1].spender
          /\ invocation.amount = 0
          /\ invocation.from \in invocation.auth ) =>
              /\ Returns(Ok)
              /\ StoreUnchanged
              /\ allowance(persistent', invocation.from, invocation.spender) = 0
              /\ ~Has(persistent', Allowance(invocation.from, invocation.spender)) ]_vars

\* C16 witness: the second of two consecutive approve(alice, bob, 0) calls
\* has just returned.
C16_Witness ==
    /\ lastOp = "approve"
    /\ lastResult = Ok
    /\ revoked # None
    /\ revoked[1].twice
    /\ events[1].topics = <<"approve", "alice", "bob">>
    /\ events[1].data = <<0, 0>>

---------------------------------------------------------------------------
\* What initialize returns on an uninitialized ledger, as the
\* specification states it.
InitializeResultAsStated(name_, symbol_, decimals_) ==
    IF decimals_ > 18 THEN "InvalidDecimals"
    ELSE IF name_.len \notin 1 .. 100 \/ symbol_.len \notin 1 .. 32
    THEN "InvalidMetadata"
    ELSE Ok

\* C17: on an uninitialized ledger initialize returns InvalidDecimals when
\* decimals > 18, whatever the text lengths, and InvalidMetadata when the
\* name length is outside 1..100 or the symbol length is outside 1..32; a
\* failed initialize leaves the ledger uninitialized, and an initialize with
\* valid arguments on an uninitialized ledger, after such a failure included,
\* succeeds and stores its admin and metadata.
C17_InitializeValidation ==
    [][ (Runs("initialize") /\ ~initialized) =>
          /\ Returns(InitializeResultAsStated(invocation.name, invocation.symbol,
                                              invocation.decimals))
          /\ lastResult' # Ok => StoreUnchanged /\ ~initialized'
          /\ lastResult' = Ok =>
                 /\ initialized'
                 /\ admin(instance') = Some(invocation.admin)
                 /\ name(instance') = invocation.name
                 /\ symbol(instance') = invocation.symbol
                 /\ decimals(instance') = invocation.decimals
          /\ \A n \in NameLimits, s \in SymbolLimits, d \in DecimalsLimits :
                 initialize(instance, persistent, invocation.admin, n, s, d).res
                     = InitializeResultAsStated(n, s, d) ]_vars

\* C17 witness: an initialize with decimals 19 has just been rejected for
\* its decimals, and the ledger is still uninitialized.
C17_Witness ==
    /\ lastOp = "initialize"
    /\ lastResult = "InvalidDecimals"
    /\ ~initialized
    /\ instance = << >>

---------------------------------------------------------------------------
\* The payload the event of a successful call must carry: the values the
\* getters return on the stores the call leaves.
EventMatchesPostState(inv, e, inst, pers) ==
    CASE inv.op = "initialize" ->
             /\ e.topics = <<"init", inv.admin>>
             /\ admin(inst) = Some(inv.admin)
             /\ e.data = [name |-> name(inst), symbol |-> symbol(inst),
                          decimals |-> decimals(inst)]
      [] inv.op = "mint" ->
             /\ e.topics = <<"mint", inv.to>>
             /\ e.data = <<inv.amount, balance(pers, inv.to), total_supply(inst)>>
      [] inv.op = "burn" ->
             /\ e.topics = <<"burn", inv.from>>
             /\ e.data = <<inv.amount, balance(pers, inv.from), total_supply(inst)>>
      [] inv.op = "transfer" ->
             /\ e.topics = <<"transfer", inv.from, inv.to>>
             /\ e.data = <<inv.amount, balance(pers, inv.from),
                           balance(pers, inv.to)>>
      [] inv.op = "approve" ->
             /\ e.topics = <<"approve", inv.from, inv.spender>>
             /\ e.data = <<allowance(persistent, inv.from, inv.spender),
                           allowance(pers, inv.from, inv.spender)>>
      [] inv.op = "transfer_from" ->
             /\ e.topics = <<"trnsf_frm", inv.spender, inv.from, inv.to>>
             /\ e.data = <<inv.amount, balance(pers, inv.from),
                           balance(pers, inv.to),
                           allowance(pers, inv.from, inv.spender)>>

\* C18: every successful initialize, mint, burn, transfer, approve and
\* transfer_from publishes exactly one event whose payload equals the state
\* the call leaves (for approve, the allowance before and after); a call
\* that does not succeed publishes no event.
C18_OneEventPerSuccess ==
    [][ (invocation.op # "none" /\ invocation'.op = "none") =>
          IF lastResult' = Ok
          THEN /\ Len(events') = 1
               /\ EventMatchesPostState(invocation, events'[1],
                                        instance', persistent')
          ELSE events' = << >> ]_vars

\* C18 witness: a mint has just published its one event, carrying the
\* balance and the supply now stored.
C18_Witness ==
    /\ lastOp = "mint"
    /\ lastResult = Ok
    /\ Len(events) = 1
    /\ events[1].topics = <<"mint", "bob">>
    /\ events[1].data = <<1, balance(persistent, "bob"), total_supply(instance)>>
    /\ total_supply(instance) = 2

---------------------------------------------------------------------------
\* C19: within each operation every check that can make it return an error
\* is evaluated before its first store write or remove: no call that returns
\* an error has written to a store or extended a record's retention.
C19_ChecksPrecedeWrites ==
    [][ (invocation.op # "none" /\ invocation'.op = "none"
           /\ lastResult' \in TokenError) =>
              /\ persistent' = persistent
              /\ instance' = instance
              /\ extended' = {} ]_vars

---------------------------------------------------------------------------
\* C20: the arithmetic checks placed after a sufficiency comparison never
\* fail: on an initialized ledger an authorized burn(from, X) with
\* 0 < X <= balance(from) succeeds, and an authorized transfer or
\* transfer_from with amount > 0, from # to and sufficient balance (and
\* allowance) succeeds, never returning OverflowError.
C20_DefensiveChecksNeverFail ==
    [][ /\ ( /\ Runs("burn")
             /\ initialized
             /\ invocation.from \in invocation.auth
             /\ invocation.amount > 0
             /\ invocation.amount <= balance(persistent, invocation.from) )
           => Returns(Ok)
        /\ ( /\ Runs("transfer")
             /\ initialized
             /\ invocation.from \in invocation.auth
             /\ invocation.amount > 0
             /\ invocation.from # invocation.to
             /\ invocation.amount <= balance(persistent, invocation.from) )
           => Returns(Ok)
        /\ ( /\ Runs("transfer_from")
             /\ initialized
             /\ invocation.spender \in invocation.auth
             /\ invocation.amount > 0
             /\ invocation.from # invocation.to
             /\ invocation.amount <= balance(persistent, invocation.from)
             /\ invocation.amount
                    <= allowance(persistent, invocation.from, invocation.spender) )
           => Returns(Ok) ]_vars

---------------------------------------------------------------------------
\* C21: for every owner o and spender s, the total moved out of o's balance
\* by successful transfer_from(s, o, _, _) calls since the latest successful
\* approve(o, s, A) never exceeds A, allowance(o, s) always equals A minus
\* that total, and only a successful approve(o, s, _) authorized by o
\* increases allowance(o, s).  Both stores and unspent start empty, so the
\* accounting is checked on each step that changes either of them.
C21_AllowanceAccounting ==
    [][ /\ (persistent' # persistent \/ unspent' # unspent) =>
               \A p \in Accounts \X Accounts :
                   /\ GetOr(unspent', p, 0) >= 0
                   /\ allowance(persistent', p[1], p[2]) = GetOr(unspent', p, 0)
        /\ persistent' # persistent =>
               \A o \in Accounts, s \in Accounts :
                   allowance(persistent', o, s) > allowance(persistent, o, s) =>
                       /\ Runs("approve")
                       /\ Returns(Ok)
                       /\ invocation.from = o
                       /\ invocation.spender = s
                       /\ o \in invocation.auth ]_vars

\* C21 witness: after approve(alice, bob, 2) a transfer_from of 1 by bob has
\* just left 1 of the approved amount, and that is the stored allowance.
C21_Witness ==
    /\ lastOp = "transfer_from"
    /\ lastResult = Ok
    /\ events[1].topics[2] = "bob"
    /\ events[1].topics[3] = "alice"
    /\ events[1].data[1] = 1
    /\ Unspent(<<"alice", "bob">>) = 1
    /\ allowance(persistent, "alice", "bob") = 1

====
